---------------------------- MODULE Spec2Model ----------------------------
(***************************************************************************)
(* Model of the configuration loader: src/settings.py (resolve_secrets,    *)
(* get_config behind functools.lru_cache) and src/utils.py (retry and the  *)
(* three secret helpers).                                                  *)
(***************************************************************************)
EXTENDS Integers, Sequences, FiniteSets, TLC

VARIABLES
    environ,         \* os.environ: name -> text (a partial function)
    secret_mapping,  \* what cls._get_secret_field_mapping() returns
    source,          \* the raw payload the settings sources hand to the validator
    cache,           \* the lru_cache dictionary of get_config: key -> instance
    nextId,          \* identity of the next configuration instance built
    callsLeft,       \* calls the callers may still make
    runs,            \* history: key -> times get_config's body built a config
    failedKeys,      \* history: keys of get_config calls that raised
    pc,              \* per thread: position inside the running call
    via,             \* per thread: "get_config" or "direct" (validator called alone)
    key,             \* per thread: the env_state argument of the running call
    cls,             \* per thread: configs[env_state]
    data,            \* per thread: resolve_secrets' data, in iteration order
    idx,             \* per thread: position of the for loop in data
    resolved,        \* per thread: resolve_secrets' resolved dict
    trace,           \* per thread: helper invocations of the running call
    ret,             \* per thread: outcome of the last finished call
    rpc,             \* retry: position of wrapper
    attempts,        \* retry: attempts argument
    delay,           \* retry: delay argument (hundredths of a second)
    backoff,         \* retry: backoff argument
    i,               \* retry: loop variable of wrapper
    wait,            \* retry: wrapper's wait (hundredths of a second)
    fnCalls,         \* retry: outcomes of the invocations of fn, in order
    sleeps,          \* retry: arguments of time.sleep, in order
    rret             \* retry: outcome of wrapper

cfgVars == <<environ, secret_mapping, source, cache, nextId, callsLeft, runs,
             failedKeys, pc, via, key, cls, data, idx, resolved, trace, ret>>
retryVars == <<rpc, attempts, delay, backoff, i, wait, fnCalls, sleeps, rret>>
vars == <<cfgVars, retryVars>>

(***************************************************************************)
(* Bounds.                                                                 *)
(***************************************************************************)
MaxCalls == 2       \* get_config calls per run
MaxAttempts == 3    \* largest attempts argument tried on retry

Threads == {1, 2}

(***************************************************************************)
(* Python values that occur as raw field values and as fetched secrets.    *)
(***************************************************************************)
PyNone == [kind |-> "none", str |-> "", num |-> 0]
PyBool(b) == [kind |-> "bool", str |-> "", num |-> IF b THEN 1 ELSE 0]
PyInt(n) == [kind |-> "int", str |-> "", num |-> n]
PyStr(s) == [kind |-> "str", str |-> s, num |-> 0]
\* bytes; num = 1 when the bytes are valid UTF-8
PyBytes(s, valid) == [kind |-> "bytes", str |-> s, num |-> IF valid THEN 1 ELSE 0]

\* Python truthiness: `not value`
Falsy(v) ==
    \/ v.kind = "none"
    \/ v.kind \in {"bool", "int"} /\ v.num = 0
    \/ v.kind \in {"str", "bytes"} /\ v.str = ""

isinstance_str(v) == v.kind = "str"


(***************************************************************************)
(* os.environ.  A name that is not set is not in the domain; get returns   *)
(* the empty sequence for it (None) and <<text>> otherwise.                *)
(***************************************************************************)
environ_get(env, name) == IF name \in DOMAIN env THEN <<env[name]>> ELSE <<>>

Truthy(opt) == opt # <<>> /\ opt[1] # ""

environ_set(env, name, text) ==
    [n \in DOMAIN env \cup {name} |-> IF n = name THEN text ELSE env[n]]

\* the names get_config copies for dev, in the order of settings.py
CredentialNames ==
    << "AWS_ACCESS_KEY_ID", "AWS_SECRET_ACCESS_KEY", "AWS_SESSION_TOKEN",
       "AWS_REGION", "GOOGLE_APPLICATION_CREDENTIALS", "AZURE_CLIENT_ID",
       "AZURE_CLIENT_SECRET", "AZURE_TENANT_ID", "AZURE_KEY_VAULT_URL" >>

\* a copy that tests `x is not None` instead of `x`
mutant_promote_one(env, prefix, name) ==
    LET x == environ_get(env, prefix \o name)
    IN  IF x # <<>> THEN environ_set(env, name, x[1]) ELSE env

\* one `x = os.environ.get(prefix + name); if x: os.environ[name] = x`
promote_one(env, prefix, name) ==
    LET x == environ_get(env, prefix \o name)
    IN  IF Truthy(x) THEN environ_set(env, name, x[1]) ELSE env

RECURSIVE promote_from(_, _, _)
promote_from(env, prefix, n) ==
    IF n > Len(CredentialNames) THEN env
    ELSE promote_from(promote_one(env, prefix, CredentialNames[n]), prefix, n + 1)

\* the body of `if env_state == "dev":`
promote_dev(env) == promote_from(env, "DEV_", 1)

(***************************************************************************)
(* The secret stores.  A store answers a retrieval call with an exception  *)
(* or with a response carrying a text and/or a binary payload.             *)
(***************************************************************************)
StoreAnswers ==
    { [exc |-> "none", code |-> "", text |-> PyStr("s3cr3t"), binary |-> PyNone],
      [exc |-> "none", code |-> "", text |-> PyStr("ref1"), binary |-> PyNone],
      [exc |-> "none", code |-> "", text |-> PyNone, binary |-> PyBytes("b1n", TRUE)],
      [exc |-> "none", code |-> "", text |-> PyStr(""), binary |-> PyBytes("\\xff", FALSE)],
      [exc |-> "none", code |-> "", text |-> PyNone, binary |-> PyBytes("\\xfe", FALSE)],
      [exc |-> "none", code |-> "", text |-> PyNone, binary |-> PyNone],
      [exc |-> "ClientError", code |-> "ResourceNotFoundException",
       text |-> PyNone, binary |-> PyNone],
      [exc |-> "ClientError", code |-> "AccessDeniedException",
       text |-> PyNone, binary |-> PyNone],
      [exc |-> "ConnectionError", code |-> "", text |-> PyNone, binary |-> PyNone] }

NoError == [type |-> "", msg |-> "", ref |-> "", cause |-> ""]
Error(type, msg, ref, cause) == [type |-> type, msg |-> msg, ref |-> ref, cause |-> cause]

LogRecord(level, msg, ref, detail) ==
    [level |-> level, msg |-> msg, ref |-> ref, detail |-> detail]

\* what a helper call comes to: a returned value or a raised error, whether the
\* retrieval call was issued (and for which name), and the records it logged
Returned(val, request, logs) ==
    [ok |-> TRUE, val |-> val, err |-> NoError, called |-> TRUE,
     request |-> request, logs |-> logs]
Raised(err, called, request, logs) ==
    [ok |-> FALSE, val |-> PyNone, err |-> err, called |-> called,
     request |-> request, logs |-> logs]

\* bytes.decode("utf-8")
CanDecode(b) == b.kind = "bytes" /\ b.num = 1
decode(b) == PyStr(b.str)

\* str(e) of the UnicodeDecodeError that decode raises: it quotes the byte that
\* could not be decoded (the payloads here are one byte long)
decode_error_text(b) == "'utf-8' codec can't decode byte " \o b.str

DecodeError(b) == Error("UnicodeDecodeError", decode_error_text(b), "", "")

\* a test that takes every ClientError for a missing secret
mutant_is_not_found(ans) == TRUE

\* line 54: `error_code == "ResourceNotFoundException"`
is_not_found(ans) == ans.code = "ResourceNotFoundException"

\* a name that leaves the version out
mutant_gcp_secret_name(project_id, value) ==
    "projects/" \o project_id \o "/secrets/" \o value

\* line 68
gcp_secret_name(project_id, value) ==
    "projects/" \o project_id \o "/secrets/" \o value \o "/versions/latest"

aws_secret_helper(value, ans) ==
    IF ans.exc = "ClientError" THEN
        IF is_not_found(ans)
        THEN Raised(Error("ValueError", "AWS secret not found", value, "ClientError"),
                    TRUE, value,
                    << LogRecord("error", "AWS secret not found", value, "") >>)
        ELSE Raised(Error("ClientError", ans.code, "", ""), TRUE, value,
                    << LogRecord("error", "Error fetching AWS secret", value, ans.code) >>)
    ELSE IF ans.exc # "none" THEN
        Raised(Error(ans.exc, "", "", ""), TRUE, value, << >>)
    ELSE IF ~Falsy(ans.text) THEN
        Returned(ans.text, value,
                 << LogRecord("debug", "Fetched secret from AWS Secrets Manager", value, "") >>)
    ELSE IF ~Falsy(ans.binary) THEN
        IF CanDecode(ans.binary)
        THEN Returned(decode(ans.binary), value,
                 << LogRecord("debug", "Fetched secret from AWS Secrets Manager", value, "") >>)
        ELSE Raised(DecodeError(ans.binary), TRUE, value, << >>)
    ELSE Raised(Error("ValueError", "AWS secret has no SecretString or SecretBinary",
                      value, ""), TRUE, value, << >>)

gcp_secret_helper(value, ans, env) ==
    LET project_id == environ_get(env, "GOOGLE_CLOUD_PROJECT")
        name == gcp_secret_name(project_id[1], value)
    IN  IF ~Truthy(project_id) THEN
            Raised(Error("ValueError",
                         "GOOGLE_CLOUD_PROJECT environment variable must be set", "", ""),
                   FALSE, "",
                   << LogRecord("error", "Error fetching GCP secret", value,
                                "GOOGLE_CLOUD_PROJECT environment variable must be set") >>)
        ELSE IF ans.exc # "none" THEN
            Raised(Error(ans.exc, ans.code, "", ""), TRUE, name,
                   << LogRecord("error", "Error fetching GCP secret", value, ans.exc) >>)
        ELSE IF ans.binary.kind # "bytes" THEN
            \* a response without payload data: .decode on it raises
            Raised(Error("AttributeError", "", "", ""), TRUE, name,
                   << LogRecord("error", "Error fetching GCP secret", value,
                                "AttributeError") >>)
        ELSE IF ~CanDecode(ans.binary) THEN
            Raised(DecodeError(ans.binary), TRUE, name,
                   << LogRecord("error", "Error fetching GCP secret", value,
                                decode_error_text(ans.binary)) >>)
        ELSE Returned(decode(ans.binary), name,
                   << LogRecord("debug", "Fetched secret from GCP Secret Manager", value, "") >>)

azure_secret_helper(value, ans, env) ==
    LET vault_url == environ_get(env, "AZURE_KEY_VAULT_URL")
    IN  IF ~Truthy(vault_url) THEN
            Raised(Error("ValueError",
                         "AZURE_KEY_VAULT_URL environment variable must be set", "", ""),
                   FALSE, "", << >>)
        ELSE IF ans.exc # "none" THEN
            Raised(Error(ans.exc, ans.code, "", ""), TRUE, value,
                   << LogRecord("error", "Error fetching Azure secret", value, ans.exc) >>)
        ELSE Returned(ans.text, value,
                   << LogRecord("debug", "Fetched secret from Azure Key Vault", value, "") >>)

(***************************************************************************)
(* resolve_secrets: classification of one field and dispatch to a helper.  *)
(***************************************************************************)
FieldNames == {"API_KEY", "LOG_LEVEL"}
BackendKinds == {"aws", "azure", "gcp"}

EmptyDict == [f \in {} |-> PyNone]
dict_set(d, k, v) == [f \in DOMAIN d \cup {k} |-> IF f = k THEN v ELSE d[f]]

\* a check that lost the `not` of the isinstance test
mutant_passes_through_str(value) == Falsy(value) \/ isinstance_str(value)

\* a check that lost the isinstance test
mutant_passes_through_falsy(value) == Falsy(value)

\* line 28: `if not value or not isinstance(value, str)`
passes_through(value) == Falsy(value) \/ ~isinstance_str(value)

\* a chain that tests the lists in the order gcp, azure, aws
mutant_backend_of_reversed(field_name, mapping) ==
    IF field_name \in mapping.gcp THEN "gcp"
    ELSE IF field_name \in mapping.azure THEN "azure"
    ELSE IF field_name \in mapping.aws THEN "aws"
    ELSE "none"

\* a chain whose else branch fetches too
mutant_backend_of(field_name, mapping) ==
    IF field_name \in mapping.aws THEN "aws"
    ELSE IF field_name \in mapping.azure THEN "azure"
    ELSE "gcp"

\* lines 32-39: the if/elif chain over the mapping's lists
backend_of(field_name, mapping) ==
    IF field_name \in mapping.aws THEN "aws"
    ELSE IF field_name \in mapping.azure THEN "azure"
    ELSE IF field_name \in mapping.gcp THEN "gcp"
    ELSE "none"

\* lines 33, 35, 37: the helper is called once, directly
call_helper(backend, value, ans, env) ==
    CASE backend = "aws" -> aws_secret_helper(value.str, ans)
      [] backend = "azure" -> azure_secret_helper(value.str, ans, env)
      [] backend = "gcp" -> gcp_secret_helper(value.str, ans, env)

\* one helper invocation: what it was called for, what the store answered, what
\* the helper made of it and what it logged
Invocation(field_name, backend, value, ans, r) ==
    [field |-> field_name, backend |-> backend, ref |-> value.str, resp |-> ans,
     ok |-> r.ok, val |-> r.val, err |-> r.err, called |-> r.called,
     request |-> r.request, logs |-> r.logs]

(***************************************************************************)
(* get_config: selectors, the lru_cache around it, the body's checks.      *)
(***************************************************************************)
\* an env_state argument: None, or a str given as its characters
NoneSel == [none |-> TRUE, s |-> << >>]
Sel(chars) == [none |-> FALSE, s |-> chars]

Selectors ==
    { NoneSel, Sel(<< >>), Sel(<<"d", "e", "v">>), Sel(<<"D", "E", "V">>),
      Sel(<<"p", "r", "o", "d">>), Sel(<<"t", "e", "s", "t">>),
      Sel(<<"q", "a">>) }

lower_char(c) ==
    CASE c = "D" -> "d" [] c = "E" -> "e" [] c = "V" -> "v" [] c = "P" -> "p"
      [] c = "R" -> "r" [] c = "O" -> "o" [] c = "T" -> "t" [] c = "S" -> "s"
      [] c = "Q" -> "q" [] c = "A" -> "a" [] OTHER -> c

\* str.lower()
lower(chars) == [j \in DOMAIN chars |-> lower_char(chars[j])]

\* line 131
configs ==
    [k \in {<<"d", "e", "v">>, <<"p", "r", "o", "d">>, <<"t", "e", "s", "t">>} |->
        CASE k = <<"d", "e", "v">> -> "DevConfig"
          [] k = <<"p", "r", "o", "d">> -> "ProdConfig"
          [] k = <<"t", "e", "s", "t">> -> "TestConfig"]

\* line 96: `if not env_state`
not_set(env_state) == env_state.none \/ env_state.s = << >>

\* line 132: the lookup configs[env_state] succeeds
known(env_state) == lower(env_state.s) \in DOMAIN configs

\* line 99
is_dev(env_state) == lower(env_state.s) = <<"d", "e", "v">>

\* the error the body raises before it builds anything, if any
body_error(env_state) ==
    IF not_set(env_state)
    THEN Error("ValueError", "ENV_STATE is not set. Possible values are: DEV, TEST, PROD",
               "", "")
    ELSE IF ~known(env_state) THEN Error("KeyError", "", "", "")
    ELSE NoError

\* functools.lru_cache(): entries from least to most recently used
maxsize == 128

cache_keys(c) == {c[j].key : j \in DOMAIN c}

cache_index(c, k) == CHOOSE j \in DOMAIN c : c[j].key = k

cache_get(c, k) == c[cache_index(c, k)].inst

Without(c, j) == [n \in 1..(Len(c) - 1) |-> IF n < j THEN c[n] ELSE c[n + 1]]

\* a hit moves the entry to the most recently used end
cache_touch(c, k) == Append(Without(c, cache_index(c, k)), c[cache_index(c, k)])

\* a wrapper whose cache is full with one entry
mutant_cache_put_evicts(c, k, inst) ==
    IF k \in cache_keys(c) THEN c
    ELSE IF Len(c) >= 1 THEN Append(Tail(c), [key |-> k, inst |-> inst])
    ELSE Append(c, [key |-> k, inst |-> inst])

\* a wrapper that replaces the entry of a key that was stored during the call
mutant_cache_put_overwrites(c, k, inst) ==
    IF k \in cache_keys(c)
    THEN Append(Without(c, cache_index(c, k)), [key |-> k, inst |-> inst])
    ELSE IF Len(c) >= maxsize THEN Append(Tail(c), [key |-> k, inst |-> inst])
    ELSE Append(c, [key |-> k, inst |-> inst])

\* a wrapper that never stores
mutant_cache_put(c, k, inst) == c

\* after the body returned: the result is stored unless the key got in meanwhile;
\* a full cache drops its least recently used entry
cache_put(c, k, inst) ==
    IF k \in cache_keys(c) THEN c
    ELSE IF Len(c) >= maxsize THEN Append(Tail(c), [key |-> k, inst |-> inst])
    ELSE Append(c, [key |-> k, inst |-> inst])

NoInstance == [id |-> 0, cls |-> "", fields |-> EmptyDict]
NoResult == [status |-> "none", inst |-> NoInstance, err |-> NoError]
ReturnedInstance(inst) == [status |-> "ok", inst |-> inst, err |-> NoError]
ReturnedMapping == [status |-> "ok", inst |-> NoInstance, err |-> NoError]
RaisedError(err) == [status |-> "err", inst |-> NoInstance, err |-> err]

(***************************************************************************)
(* Inputs.                                                                 *)
(***************************************************************************)
RawValues ==
    { PyNone, PyBool(FALSE), PyBool(TRUE), PyInt(7), PyStr(""), PyStr("ref1"),
      PyStr("INFO") }

Items == [name : FieldNames, value : RawValues]

\* a dict: at most one item per field name, in any insertion order
Payloads ==
    { p \in UNION { [1..n -> Items] : n \in 0..Cardinality(FieldNames) } :
        \A a, b \in DOMAIN p : a # b => p[a].name # p[b].name }

Mappings == [aws : SUBSET FieldNames, azure : SUBSET FieldNames, gcp : SUBSET FieldNames]

EmptyEnviron == [n \in {} |-> ""]

Environs ==
    { EmptyEnviron,
      [n \in {"GOOGLE_CLOUD_PROJECT", "AZURE_KEY_VAULT_URL"} |->
          IF n = "GOOGLE_CLOUD_PROJECT" THEN "proj" ELSE "https://base.vault"],
      [n \in {"GOOGLE_CLOUD_PROJECT", "DEV_AZURE_KEY_VAULT_URL", "DEV_AWS_REGION"} |->
          CASE n = "GOOGLE_CLOUD_PROJECT" -> "proj"
            [] n = "DEV_AZURE_KEY_VAULT_URL" -> "https://dev.vault"
            [] n = "DEV_AWS_REGION" -> ""] }

Item(name, value) == [name |-> name, value |-> value]

\* the inputs of the runs that exercise the cache
CacheSources ==
    { << >>,
      << Item("API_KEY", PyStr("ref1")), Item("LOG_LEVEL", PyStr("INFO")) >>,
      << Item("LOG_LEVEL", PyStr("INFO")), Item("API_KEY", PyNone) >> }

CacheMappings ==
    { [aws |-> {}, azure |-> {}, gcp |-> {}],
      [aws |-> {"API_KEY"}, azure |-> {}, gcp |-> {}],
      [aws |-> {"API_KEY"}, azure |-> {"LOG_LEVEL"}, gcp |-> {}],
      [aws |-> {}, azure |-> {}, gcp |-> {"API_KEY", "LOG_LEVEL"}] }

(***************************************************************************)
(* Initial states.                                                         *)
(***************************************************************************)
RetryAtRest ==
    /\ rpc = "idle"
    /\ attempts = 0
    /\ delay = 0
    /\ backoff = 1
    /\ i = 0
    /\ wait = 0
    /\ fnCalls = << >>
    /\ sleeps = << >>
    /\ rret = [status |-> "none", val |-> "", err |-> NoError]

ConfigAtRest ==
    /\ cache = << >>
    /\ nextId = 1
    /\ runs = [k \in Selectors |-> 0]
    /\ failedKeys = {}
    /\ pc = [t \in Threads |-> "idle"]
    /\ via = [t \in Threads |-> "get_config"]
    /\ key = [t \in Threads |-> NoneSel]
    /\ cls = [t \in Threads |-> ""]
    /\ data = [t \in Threads |-> << >>]
    /\ idx = [t \in Threads |-> 1]
    /\ resolved = [t \in Threads |-> EmptyDict]
    /\ trace = [t \in Threads |-> << >>]
    /\ ret = [t \in Threads |-> NoResult]

\* one caller makes get_config calls one after the other
Init ==
    /\ environ \in Environs
    /\ secret_mapping \in CacheMappings
    /\ source \in CacheSources
    /\ callsLeft = [t \in Threads |-> IF t = 1 THEN MaxCalls ELSE 0]
    /\ ConfigAtRest
    /\ RetryAtRest

\* one call of the validator, over every payload and mapping
InitResolve ==
    /\ environ \in Environs
    /\ secret_mapping \in Mappings
    /\ source \in Payloads
    /\ callsLeft = [t \in Threads |-> IF t = 1 THEN 1 ELSE 0]
    /\ ConfigAtRest
    /\ RetryAtRest

(***************************************************************************)
(* get_config.                                                             *)
(***************************************************************************)
\* a body that promotes whatever the selector is
mutant_body_environ(env_state, env) == promote_dev(env)

\* lines 99-129: what the body does to os.environ
body_environ(env_state, env) == IF is_dev(env_state) THEN promote_dev(env) ELSE env

StartCall(t, how, env_state) ==
    /\ pc[t] = "idle"
    /\ callsLeft[t] > 0
    /\ callsLeft' = [callsLeft EXCEPT ![t] = @ - 1]
    /\ via' = [via EXCEPT ![t] = how]
    /\ key' = [key EXCEPT ![t] = env_state]
    /\ trace' = [trace EXCEPT ![t] = << >>]
    /\ idx' = [idx EXCEPT ![t] = 1]
    /\ resolved' = [resolved EXCEPT ![t] = EmptyDict]

\* a wrapper that remembers the failure under the key
mutant_Raise(t, how, env_state, err) ==
    /\ pc' = [pc EXCEPT ![t] = "idle"]
    /\ ret' = [ret EXCEPT ![t] = RaisedError(err)]
    /\ failedKeys' = IF how = "get_config" THEN failedKeys \cup {env_state} ELSE failedKeys
    /\ cache' = Append(cache, [key |-> env_state, inst |-> NoInstance])

\* the call of thread t (entered as `how` with argument env_state) ends with an
\* exception: nothing is returned, and the lru_cache wrapper stores nothing
Raise(t, how, env_state, err) ==
    /\ pc' = [pc EXCEPT ![t] = "idle"]
    /\ ret' = [ret EXCEPT ![t] = RaisedError(err)]
    /\ failedKeys' = IF how = "get_config" THEN failedKeys \cup {env_state} ELSE failedKeys
    /\ cache' = cache

\* a loop that keeps the raw value of a field whose fetch failed and goes on
mutant_on_helper_failure(t, field_name, value, r) ==
    /\ resolved' = [resolved EXCEPT ![t] = dict_set(@, field_name, value)]
    /\ idx' = [idx EXCEPT ![t] = @ + 1]
    /\ UNCHANGED <<pc, ret, failedKeys, cache>>

\* a helper raised inside the for loop: the exception leaves resolve_secrets
on_helper_failure(t, field_name, value, r) ==
    /\ Raise(t, via[t], key[t], r.err)
    /\ UNCHANGED <<resolved, idx>>

\* the lru_cache wrapper finds the key: the body does not run
GetConfigHit(t) ==
    \E env_state \in Selectors :
        /\ StartCall(t, "get_config", env_state)
        /\ env_state \in cache_keys(cache)
        /\ ret' = [ret EXCEPT ![t] = ReturnedInstance(cache_get(cache, env_state))]
        /\ cache' = cache_touch(cache, env_state)
        /\ cls' = [cls EXCEPT ![t] = ""]
        /\ data' = [data EXCEPT ![t] = << >>]
        /\ UNCHANGED <<environ, secret_mapping, source, nextId, runs, failedKeys, pc>>
        /\ UNCHANGED retryVars

\* a miss, and the body raises at line 97 or at line 132's lookup
GetConfigReject(t) ==
    \E env_state \in Selectors :
        /\ StartCall(t, "get_config", env_state)
        /\ env_state \notin cache_keys(cache)
        /\ body_error(env_state) # NoError
        /\ Raise(t, "get_config", env_state, body_error(env_state))
        /\ environ' = IF not_set(env_state) THEN environ
                      ELSE body_environ(env_state, environ)
        /\ cls' = [cls EXCEPT ![t] = ""]
        /\ data' = [data EXCEPT ![t] = << >>]
        /\ UNCHANGED <<secret_mapping, source, nextId, runs>>
        /\ UNCHANGED retryVars

\* a miss, and the body reaches configs[env_state](): the settings class is built
GetConfigBuild(t) ==
    \E env_state \in Selectors :
        /\ StartCall(t, "get_config", env_state)
        /\ env_state \notin cache_keys(cache)
        /\ body_error(env_state) = NoError
        /\ environ' = body_environ(env_state, environ)
        /\ cls' = [cls EXCEPT ![t] = configs[lower(env_state.s)]]
        /\ data' = [data EXCEPT ![t] = source]
        /\ runs' = [runs EXCEPT ![env_state] = @ + 1]
        /\ pc' = [pc EXCEPT ![t] = "resolve"]
        /\ UNCHANGED <<secret_mapping, source, cache, nextId, failedKeys, ret>>
        /\ UNCHANGED retryVars

\* resolve_secrets called on its own with a payload
ResolveDirect(t) ==
    /\ StartCall(t, "direct", NoneSel)
    /\ cls' = [cls EXCEPT ![t] = "BaseConfig"]
    /\ data' = [data EXCEPT ![t] = source]
    /\ pc' = [pc EXCEPT ![t] = "resolve"]
    /\ UNCHANGED <<environ, secret_mapping, source, cache, nextId, runs, failedKeys, ret>>
    /\ UNCHANGED retryVars


\* one iteration of resolve_secrets' for loop
ResolveField(t) ==
    /\ pc[t] = "resolve"
    /\ idx[t] <= Len(data[t])
    /\ LET field_name == data[t][idx[t]].name
           value == data[t][idx[t]].value
           backend == backend_of(field_name, secret_mapping)
       IN  IF passes_through(value) \/ backend = "none"
           THEN /\ resolved' = [resolved EXCEPT ![t] = dict_set(@, field_name, value)]
                /\ idx' = [idx EXCEPT ![t] = @ + 1]
                /\ UNCHANGED <<trace, pc, ret, failedKeys, cache>>
           ELSE \E ans \in StoreAnswers :
                  LET r == call_helper(backend, value, ans, environ)
                  IN  /\ trace' = [trace EXCEPT ![t] =
                                      Append(@, Invocation(field_name, backend, value, ans, r))]
                      /\ IF r.ok
                         THEN /\ resolved' = [resolved EXCEPT ![t] =
                                                 dict_set(@, field_name, r.val)]
                              /\ idx' = [idx EXCEPT ![t] = @ + 1]
                              /\ UNCHANGED <<pc, ret, failedKeys, cache>>
                         ELSE on_helper_failure(t, field_name, value, r)
    /\ UNCHANGED <<environ, secret_mapping, source, nextId, callsLeft, runs,
                   via, key, cls, data>>
    /\ UNCHANGED retryVars

\* line 41: resolve_secrets returns resolved
ResolveReturn(t) ==
    /\ pc[t] = "resolve"
    /\ idx[t] > Len(data[t])
    /\ IF via[t] = "direct"
       THEN /\ pc' = [pc EXCEPT ![t] = "idle"]
            /\ ret' = [ret EXCEPT ![t] = ReturnedMapping]
       ELSE /\ pc' = [pc EXCEPT ![t] = "validate"]
            /\ UNCHANGED ret
    /\ UNCHANGED <<environ, secret_mapping, source, cache, nextId, callsLeft, runs,
                   failedKeys, via, key, cls, data, idx, resolved, trace>>
    /\ UNCHANGED retryVars

\* the settings class validates the resolved mapping; the instance it builds is
\* what get_config returns and what the lru_cache wrapper stores
Construct(t) ==
    /\ pc[t] = "validate"
    /\ \E valid \in BOOLEAN :
        IF valid
        THEN LET inst == [id |-> nextId, cls |-> cls[t], fields |-> resolved[t]]
             IN  /\ cache' = cache_put(cache, key[t], inst)
                 /\ nextId' = nextId + 1
                 /\ pc' = [pc EXCEPT ![t] = "idle"]
                 /\ ret' = [ret EXCEPT ![t] = ReturnedInstance(inst)]
                 /\ UNCHANGED failedKeys
        ELSE /\ Raise(t, via[t], key[t], Error("ValidationError", "", "", ""))
             /\ UNCHANGED nextId
    /\ UNCHANGED <<environ, secret_mapping, source, callsLeft, runs, via, key, cls,
                   data, idx, resolved, trace>>
    /\ UNCHANGED retryVars

Next ==
    \E t \in Threads :
        \/ GetConfigHit(t)
        \/ GetConfigReject(t)
        \/ GetConfigBuild(t)
        \/ ResolveField(t)
        \/ ResolveReturn(t)
        \/ Construct(t)

Spec == Init /\ [][Next]_vars

NextResolve ==
    \E t \in Threads :
        \/ ResolveDirect(t)
        \/ ResolveField(t)
        \/ ResolveReturn(t)

SpecResolve == InitResolve /\ [][NextResolve]_vars

(***************************************************************************)
(* retry(attempts, delay, backoff)(fn): the wrapper around a fallible fn.  *)
(* Times are in hundredths of a second, so that 0.25 is 25.                *)
(***************************************************************************)
DefaultAttempts == 3
DefaultDelay == 25
DefaultBackoff == 2

Delays == {0, DefaultDelay, 100}
Backoffs == {1, DefaultBackoff, 3}
FnValues == {"r1", "r2"}
FnErrorTypes == {"ValueError", "ClientError"}

\* the exception object the n-th invocation of fn raises
FnError(type, n) == [type |-> type, msg |-> "", ref |-> "", cause |-> "", id |-> n]
NoFnError == [type |-> "", msg |-> "", ref |-> "", cause |-> "", id |-> 0]

FnOutcomes(n) ==
    { [ok |-> TRUE, val |-> v, err |-> NoFnError] : v \in FnValues }
    \cup { [ok |-> FALSE, val |-> "", err |-> FnError(ty, n)] : ty \in FnErrorTypes }

InitRetry ==
    /\ environ = EmptyEnviron
    /\ secret_mapping = [aws |-> {}, azure |-> {}, gcp |-> {}]
    /\ source = << >>
    /\ callsLeft = [t \in Threads |-> 0]
    /\ ConfigAtRest
    /\ rpc = "idle"
    /\ attempts \in 0..MaxAttempts
    /\ delay \in Delays
    /\ backoff \in Backoffs
    /\ i = 0
    /\ wait = 0
    /\ fnCalls = << >>
    /\ sleeps = << >>
    /\ rret = [status |-> "none", val |-> "", err |-> NoFnError]

\* a wrapper that takes the attempt after the last for the last one
mutant_is_last_attempt(n, total) == n = total

\* line 24: `if i == attempts - 1`
is_last_attempt(n, total) == n = total - 1

\* a wrapper that adds the factor instead of multiplying by it
mutant_next_wait(w, factor) == w + factor

\* line 30: `wait *= backoff`
next_wait(w, factor) == w * factor

\* line 19: wrapper is entered
WrapperCall ==
    /\ rpc = "idle"
    /\ rret.status = "none"
    /\ wait' = delay
    /\ i' = 0
    /\ rpc' = "loop"
    /\ UNCHANGED <<attempts, delay, backoff, fnCalls, sleeps, rret>>
    /\ UNCHANGED cfgVars

\* lines 21-28: fn is invoked; it returns, or it raises and the error is
\* re-raised on the last attempt
WrapperInvoke ==
    /\ rpc = "loop"
    /\ i < attempts
    /\ \E out \in FnOutcomes(Len(fnCalls) + 1) :
        /\ fnCalls' = Append(fnCalls, out)
        /\ IF out.ok
           THEN /\ rret' = [status |-> "ok", val |-> out.val, err |-> NoFnError]
                /\ rpc' = "idle"
           ELSE IF is_last_attempt(i, attempts)
           THEN /\ rret' = [status |-> "err", val |-> "", err |-> out.err]
                /\ rpc' = "idle"
           ELSE /\ rpc' = "sleep"
                /\ UNCHANGED rret
    /\ UNCHANGED <<attempts, delay, backoff, i, wait, sleeps>>
    /\ UNCHANGED cfgVars

\* lines 29-30, and the for loop's step
WrapperSleep ==
    /\ rpc = "sleep"
    /\ sleeps' = Append(sleeps, wait)
    /\ wait' = next_wait(wait, backoff)
    /\ i' = i + 1
    /\ rpc' = "loop"
    /\ UNCHANGED <<attempts, delay, backoff, fnCalls, rret>>
    /\ UNCHANGED cfgVars

\* range(attempts) is exhausted without a return or a raise: wrapper returns None
WrapperFallThrough ==
    /\ rpc = "loop"
    /\ i >= attempts
    /\ rret' = [status |-> "ok", val |-> "None", err |-> NoFnError]
    /\ rpc' = "idle"
    /\ UNCHANGED <<attempts, delay, backoff, i, wait, fnCalls, sleeps>>
    /\ UNCHANGED cfgVars

NextRetry == WrapperCall \/ WrapperInvoke \/ WrapperSleep \/ WrapperFallThrough

SpecRetry == InitRetry /\ [][NextRetry]_vars

(***************************************************************************)
(* Properties of the retry wrapper (checked under SpecRetry).              *)
(***************************************************************************)
RECURSIVE Pow(_, _)
Pow(b, n) == IF n = 0 THEN 1 ELSE b * Pow(b, n - 1)

AllFailed == \A j \in DOMAIN fnCalls : ~fnCalls[j].ok

\* C2: with attempts >= 1, when fn fails N-1 times and then succeeds (N <= attempts),
\* wrapper returns the N-th result, fn was invoked exactly N times, there were
\* exactly N-1 sleeps, the j-th lasting delay * backoff^(j-1), and nothing is
\* invoked or slept after the success.
C2_SuccessOnNthAttempt ==
    \A n \in DOMAIN fnCalls :
        (attempts >= 1 /\ fnCalls[n].ok) =>
            /\ n = Len(fnCalls)
            /\ n <= attempts
            /\ \A j \in 1..(n - 1) : ~fnCalls[j].ok
            /\ rpc = "idle"
            /\ rret.status = "ok"
            /\ rret.val = fnCalls[n].val
            /\ Len(sleeps) = n - 1
            /\ \A j \in 1..(n - 1) : sleeps[j] = delay * Pow(backoff, j - 1)

C2_Witness ==
    /\ attempts = 3
    /\ delay = DefaultDelay
    /\ backoff = DefaultBackoff
    /\ Len(fnCalls) = 3
    /\ fnCalls[3].ok
    /\ rret.status = "ok"
    /\ sleeps = <<25, 50>>

\* C3: with attempts >= 1 and fn failing every time, fn is invoked exactly
\* `attempts` times, there are exactly attempts-1 sleeps (none after the last
\* failure), and the caller gets the error object of the last invocation.
C3_ExhaustedRaisesLastError ==
    (attempts >= 1 /\ AllFailed) =>
        /\ Len(fnCalls) <= attempts
        /\ Len(sleeps) <= attempts - 1
        /\ rret.status # "ok"
        /\ (Len(fnCalls) = attempts) =>
              /\ rpc = "idle"
              /\ rret.status = "err"
              /\ rret.err = fnCalls[attempts].err
              /\ \A j \in 1..(attempts - 1) : rret.err # fnCalls[j].err
              /\ Len(sleeps) = attempts - 1
        /\ (rpc = "idle" /\ rret.status # "none") => Len(fnCalls) = attempts

C3_Witness ==
    /\ attempts = 3
    /\ Len(fnCalls) = 3
    /\ AllFailed
    /\ rret.status = "err"
    /\ rret.err.id = 3
    /\ Len(sleeps) = 2

(***************************************************************************)
(* Properties of resolve_secrets (checked under SpecResolve).              *)
(***************************************************************************)
\* the field name is in one of the mapping's three lists
Listed(f) == f \in secret_mapping.aws \cup secret_mapping.azure \cup secret_mapping.gcp

\* a non-empty string
Eligible(v) == v.kind = "str" /\ v.str # ""

\* resolve_secrets, called on its own by t, has returned its mapping
ReturnedResolved(t) == via[t] = "direct" /\ pc[t] = "idle" /\ ret[t].status = "ok"

Fetches(t, f) == {n \in DOMAIN trace[t] : trace[t][n].field = f}

\* C4: the fetch of a classified field is retried under the default policy: when
\* the error of a backend whose store call failed reaches the caller, that backend
\* was invoked exactly 3 times for the field (so one or two failures do not fail the call).
C4_FetchRetriedThreeTimes ==
    \A t \in Threads : \A n \in DOMAIN trace[t] :
        (pc[t] = "idle" /\ ret[t].status = "err" /\ ~trace[t][n].ok
            /\ trace[t][n].called) =>
            Cardinality(Fetches(t, trace[t][n].field)) = DefaultAttempts

\* C5: no helper is ever invoked for a field in none of the lists, and when
\* resolve_secrets returns, the mapping has exactly the payload's field names and
\* each such field holds its raw value.
C5_UnlistedPassThrough ==
    \A t \in Threads :
        /\ \A n \in DOMAIN trace[t] : Listed(trace[t][n].field)
        /\ ReturnedResolved(t) =>
              /\ DOMAIN resolved[t] = {data[t][j].name : j \in DOMAIN data[t]}
              /\ \A j \in DOMAIN data[t] :
                    ~Listed(data[t][j].name) =>
                        resolved[t][data[t][j].name] = data[t][j].value

C5_Witness ==
    /\ ReturnedResolved(1)
    /\ Len(data[1]) = 2
    /\ ~Listed(data[1][2].name)
    /\ data[1][2].value = PyStr("ref1")
    /\ resolved[1][data[1][2].name] = PyStr("ref1")
    /\ Len(trace[1]) = 1

\* C6: when resolve_secrets returns, every listed field with a non-empty string
\* value holds what the helper of a backend listing it returned for that
\* reference: the value comes from the fetch, not from the payload.
C6_ClassifiedHoldFetched ==
    \A t \in Threads :
        ReturnedResolved(t) =>
            \A j \in DOMAIN data[t] :
                (Listed(data[t][j].name) /\ Eligible(data[t][j].value)) =>
                    \E n \in DOMAIN trace[t] :
                        /\ trace[t][n].field = data[t][j].name
                        /\ trace[t][n].ref = data[t][j].value.str
                        /\ trace[t][n].ok
                        /\ data[t][j].name \in secret_mapping[trace[t][n].backend]
                        /\ resolved[t][data[t][j].name] = trace[t][n].val

C6_Witness ==
    /\ ReturnedResolved(1)
    /\ Len(data[1]) = 2
    /\ data[1][1] = Item("API_KEY", PyStr("ref1"))
    /\ "API_KEY" \in secret_mapping.aws
    /\ resolved[1]["API_KEY"] = PyStr("s3cr3t")
    /\ resolved[1]["LOG_LEVEL"] = PyStr("INFO")

\* C8: a field whose raw value is None, a boolean, an empty string or another
\* non-string never has a helper invoked for it, listed or not, and holds its raw
\* value when resolve_secrets returns.
C8_IneligiblePassThrough ==
    \A t \in Threads : \A j \in DOMAIN data[t] :
        ~Eligible(data[t][j].value) =>
            /\ Fetches(t, data[t][j].name) = {}
            /\ ReturnedResolved(t) =>
                  resolved[t][data[t][j].name] = data[t][j].value

C8_Witness ==
    /\ ReturnedResolved(1)
    /\ Len(data[1]) = 2
    /\ data[1][1].value = PyBool(TRUE)
    /\ data[1][1].name \in secret_mapping.aws
    /\ data[1][2].value = PyStr("")
    /\ data[1][2].name \in secret_mapping.gcp
    /\ resolved[1][data[1][1].name] = PyBool(TRUE)
    /\ resolved[1][data[1][2].name] = PyStr("")
    /\ trace[1] = << >>

(***************************************************************************)
(* Properties of get_config (checked under Spec).                          *)
(***************************************************************************)
\* thread t enters a get_config call in this step
Enters(t) == callsLeft'[t] < callsLeft[t] /\ via'[t] = "get_config"

\* a call of thread t ends with an exception in this step
Fails(t) ==
    /\ pc'[t] = "idle"
    /\ ret'[t].status = "err"
    /\ pc[t] # "idle" \/ callsLeft'[t] < callsLeft[t]

\* the selectors that name Dev, Test or Prod
Recognized(env_state) ==
    /\ ~env_state.none
    /\ env_state.s \in {<<"d", "e", "v">>, <<"D", "E", "V">>, <<"p", "r", "o", "d">>,
                        <<"t", "e", "s", "t">>}

\* C1: a get_config call that follows a call with the same selector that returned
\* returns the same instance at once: the configuration is not built again and no
\* helper is invoked.
C1_SecondCallReturnsCached ==
    [][\A t \in Threads :
          (Enters(t) /\ via[t] = "get_config" /\ ret[t].status = "ok"
              /\ key'[t] = key[t]) =>
                /\ pc'[t] = "idle"
                /\ ret'[t] = ret[t]
                /\ ret'[t].inst.id > 0
                /\ runs' = runs
                /\ nextId' = nextId
                /\ trace'[t] = << >>]_vars

C1_Witness ==
    /\ callsLeft[1] = MaxCalls - 2
    /\ pc[1] = "idle"
    /\ failedKeys = {}
    /\ ret[1].status = "ok"
    /\ ret[1].inst.id = 1
    /\ nextId = 2
    /\ runs[key[1]] = 1

\* C7: when a helper fails for a field, the loop stops at that field: it is the
\* last helper invoked in the call, the call has ended with an error, and the
\* caller of get_config got no instance.
C7_FailFast ==
    \A t \in Threads : \A n \in DOMAIN trace[t] :
        ~trace[t][n].ok =>
            /\ n = Len(trace[t])
            /\ pc[t] = "idle"
            /\ ret[t].status = "err"
            /\ ret[t].inst = NoInstance
            /\ data[t][idx[t]].name = trace[t][n].field
            /\ trace[t][n].field \notin DOMAIN resolved[t]

C7_Witness ==
    /\ Len(data[1]) = 2
    /\ Listed(data[1][1].name) /\ Eligible(data[1][1].value)
    /\ Listed(data[1][2].name) /\ Eligible(data[1][2].value)
    /\ Len(trace[1]) = 1
    /\ ~trace[1][1].ok
    /\ trace[1][1].field = data[1][1].name
    /\ ret[1].status = "err"
    /\ key[1] \notin cache_keys(cache)

\* C9: a get_config call with None, with an empty selector or with a selector that
\* names none of Dev, Test, Prod raises at once: no helper is invoked, os.environ
\* is left as it was and nothing is stored in the cache.
C9_BadSelectorFailsFirst ==
    [][\A t \in Threads :
          (Enters(t) /\ ~Recognized(key'[t])) =>
                /\ pc'[t] = "idle"
                /\ ret'[t].status = "err"
                /\ ret'[t].err.type \in {"ValueError", "KeyError"}
                /\ trace'[t] = << >>
                /\ environ' = environ
                /\ cache' = cache
                /\ runs' = runs
                /\ nextId' = nextId]_vars

C9_Witness ==
    /\ key[1] = Sel(<<"q", "a">>)
    /\ ret[1].status = "err"
    /\ ret[1].err.type = "KeyError"
    /\ "DEV_AZURE_KEY_VAULT_URL" \in DOMAIN environ
    /\ "AZURE_KEY_VAULT_URL" \notin DOMAIN environ
    /\ cache = << >>

\* C10: a get_config call that raises stores nothing in the cache, and a later
\* call with the same selector runs the body again, builds the configuration
\* anew and, when that succeeds, the instance is cached.
C10_FailureNotCached ==
    [][\A t \in Threads :
          /\ Fails(t) => cache' = cache
          /\ \A n \in DOMAIN cache' : cache'[n].inst.id > 0
          /\ (Enters(t) /\ key'[t] \in failedKeys /\ Recognized(key'[t])
                /\ key'[t] \notin cache_keys(cache)) =>
                    /\ pc'[t] = "resolve"
                    /\ runs'[key'[t]] = runs[key'[t]] + 1]_vars

C10_Witness ==
    \E k \in failedKeys :
        /\ k \in cache_keys(cache)
        /\ runs[k] = 2
        /\ ret[1] = ReturnedInstance(cache_get(cache, k))

(***************************************************************************)
(* Longer runs of get_config calls, with the mapping settings.py declares  *)
(* (three empty lists).                                                    *)
(***************************************************************************)
DeclaredMapping == [aws |-> {}, azure |-> {}, gcp |-> {}]

InitCache ==
    /\ environ \in Environs
    /\ secret_mapping = DeclaredMapping
    /\ source = << Item("LOG_LEVEL", PyStr("INFO")) >>
    /\ callsLeft = [t \in Threads |-> IF t = 1 THEN MaxCalls + 2 ELSE 0]
    /\ ConfigAtRest
    /\ RetryAtRest

SpecCache == InitCache /\ [][Next]_vars

\* C11: an entry of the cache is never dropped or replaced by a later call,
\* whatever its selector and outcome, and a call whose selector has an entry
\* returns that entry's instance without building anything.
C11_EntryNeverEvicted ==
    [][/\ \A n \in DOMAIN cache : \E m \in DOMAIN cache' : cache'[m] = cache[n]
       /\ Len(cache') < maxsize
       /\ \A t \in Threads :
            (Enters(t) /\ key'[t] \in cache_keys(cache)) =>
                /\ pc'[t] = "idle"
                /\ ret'[t] = ReturnedInstance(cache_get(cache, key'[t]))
                /\ runs' = runs
                /\ nextId' = nextId
                /\ trace'[t] = << >>]_vars

C11_Witness ==
    /\ callsLeft[1] = MaxCalls - 2
    /\ failedKeys = {}
    /\ Len(cache) = 3
    /\ nextId = 4
    /\ ret[1].status = "ok"
    /\ ret[1].inst.id = 1
    /\ cache[3].key = key[1]
    /\ cache[3].inst.id = 1

(***************************************************************************)
(* get_config over a wider choice of process environments.                 *)
(***************************************************************************)
\* each variable is unset (<<>>) or set to a text
EnvOptions ==
    [ devRegion : {<<>>, <<"">>, <<"eu-west-1">>},
      region : {<<>>, <<"us-east-1">>},
      devVault : {<<>>, <<"">>, <<"https://dev.vault">>},
      vault : {<<>>, <<"https://base.vault">>},
      devProject : {<<>>, <<"dev-proj">>},
      project : {<<>>, <<"proj">>} ]

EnvOptionNames ==
    [ devRegion |-> "DEV_AWS_REGION", region |-> "AWS_REGION",
      devVault |-> "DEV_AZURE_KEY_VAULT_URL", vault |-> "AZURE_KEY_VAULT_URL",
      devProject |-> "DEV_GOOGLE_CLOUD_PROJECT", project |-> "GOOGLE_CLOUD_PROJECT" ]

EnvironOf(o) ==
    LET set == {f \in DOMAIN o : o[f] # <<>>}
    IN  [n \in {EnvOptionNames[f] : f \in set} |->
            o[CHOOSE f \in set : EnvOptionNames[f] = n][1]]

WideEnvirons == {EnvironOf(o) : o \in EnvOptions}

InitEnv ==
    /\ environ \in WideEnvirons
    /\ secret_mapping = DeclaredMapping
    /\ source = << Item("LOG_LEVEL", PyStr("INFO")) >>
    /\ callsLeft = [t \in Threads |-> IF t = 1 THEN MaxCalls ELSE 0]
    /\ ConfigAtRest
    /\ RetryAtRest

SpecEnv == InitEnv /\ [][Next]_vars

\* the selectors that name Dev
NamesDev(env_state) ==
    ~env_state.none /\ env_state.s \in {<<"d", "e", "v">>, <<"D", "E", "V">>}

PromotedNames == {CredentialNames[j] : j \in DOMAIN CredentialNames}

SameVariable(n) ==
    /\ n \in DOMAIN environ' <=> n \in DOMAIN environ
    /\ n \in DOMAIN environ => environ'[n] = environ[n]

\* C12: a get_config call for Dev leaves os.environ, before resolution starts,
\* with every credential name holding the text of its DEV_ variable when that is
\* set and non-empty and unchanged otherwise; it does not fail over a missing
\* variable and touches no other name; a call for Test or Prod, and every step
\* that is not the entry of a call, leaves os.environ as it is.
C12_PromotionOnlyForDev ==
    [][/\ \A t \in Threads :
            (Enters(t) /\ Recognized(key'[t])) =>
                IF NamesDev(key'[t])
                THEN /\ \A n \in PromotedNames :
                          IF "DEV_" \o n \in DOMAIN environ /\ environ["DEV_" \o n] # ""
                          THEN /\ n \in DOMAIN environ'
                               /\ environ'[n] = environ["DEV_" \o n]
                          ELSE SameVariable(n)
                     /\ \A n \in (DOMAIN environ \cup DOMAIN environ') \ PromotedNames :
                          SameVariable(n)
                     /\ ~Fails(t)
                     /\ trace'[t] = << >>
                ELSE environ' = environ
       /\ (\A t \in Threads : ~Enters(t)) => environ' = environ]_vars

C12_Witness ==
    /\ pc[1] = "resolve"
    /\ NamesDev(key[1])
    /\ idx[1] = 1
    /\ environ_get(environ, "DEV_AWS_REGION") = <<"eu-west-1">>
    /\ environ_get(environ, "AWS_REGION") = <<"eu-west-1">>
    /\ environ_get(environ, "DEV_AZURE_KEY_VAULT_URL") = <<"">>
    /\ environ_get(environ, "AZURE_KEY_VAULT_URL") = <<"https://base.vault">>
    /\ environ_get(environ, "DEV_GOOGLE_CLOUD_PROJECT") = <<"dev-proj">>
    /\ environ_get(environ, "GOOGLE_CLOUD_PROJECT") = <<>>

(***************************************************************************)
(* Two runs of resolve_secrets on the same payload, mapping and            *)
(* environment; the store answers each run on its own.                     *)
(***************************************************************************)
PairMappings ==
    { [aws |-> {"API_KEY"}, azure |-> {}, gcp |-> {}],
      [aws |-> {}, azure |-> {"API_KEY"}, gcp |-> {}],
      [aws |-> {}, azure |-> {}, gcp |-> {"API_KEY"}] }

InitPair ==
    /\ environ \in Environs
    /\ secret_mapping \in PairMappings
    /\ source = << Item("LOG_LEVEL", PyStr("INFO")), Item("API_KEY", PyStr("ref1")) >>
    /\ callsLeft = [t \in Threads |-> 1]
    /\ ConfigAtRest
    /\ RetryAtRest

SpecPair == InitPair /\ [][NextResolve]_vars

\* the store answered with a secret for the helper of this backend to read
HasSecret(backend, ans) ==
    /\ ans.exc = "none"
    /\ CASE backend = "gcp" -> ans.binary.kind = "bytes"
         [] backend = "azure" -> ~Falsy(ans.text)
         [] OTHER -> ~Falsy(ans.text) \/ ans.binary.kind = "bytes"

SuccessMessage ==
    [aws |-> "Fetched secret from AWS Secrets Manager",
     azure |-> "Fetched secret from Azure Key Vault",
     gcp |-> "Fetched secret from GCP Secret Manager"]

\* C13: two fetches of the same reference from the same store that differ only in
\* the secret the store returned (and end the same way) log the same records, and
\* the record of a successful fetch names only the store and the reference.
C13_LogsIndependentOfSecret ==
    \A n \in DOMAIN trace[1] \cap DOMAIN trace[2] :
        LET a == trace[1][n]
            b == trace[2][n]
        IN  ( /\ a.backend = b.backend
              /\ a.ref = b.ref
              /\ HasSecret(a.backend, a.resp)
              /\ HasSecret(b.backend, b.resp)
              /\ a.ok = b.ok
              /\ a.err.type = b.err.type ) =>
                /\ a.logs = b.logs
                /\ a.ok => a.logs = << LogRecord("debug", SuccessMessage[a.backend], a.ref, "") >>

(***************************************************************************)
(* A caller that assigns to a field of the instance get_config gave it.    *)
(* BaseConfig.model_config sets env_file and extra only: the model is not  *)
(* frozen, and lru_cache hands every caller the one object it stores.      *)
(***************************************************************************)
AssignedValues == {PyStr("changed")}

\* the object with this id after `obj.f = v`, seen through any reference to it
assign_field(inst, id, f, v) ==
    IF inst.id = id THEN [inst EXCEPT !.fields[f] = v] ELSE inst

CallerAssigns(t) ==
    /\ pc[t] = "idle"
    /\ via[t] = "get_config"
    /\ ret[t].status = "ok"
    /\ ret[t].inst.id # 0
    /\ \E f \in DOMAIN ret[t].inst.fields, v \in AssignedValues :
        /\ ret[t].inst.fields[f] # v
        /\ cache' = [n \in DOMAIN cache |->
                        [cache[n] EXCEPT !.inst = assign_field(@, ret[t].inst.id, f, v)]]
        /\ ret' = [u \in Threads |->
                        [ret[u] EXCEPT !.inst = assign_field(@, ret[t].inst.id, f, v)]]
    /\ UNCHANGED <<environ, secret_mapping, source, nextId, callsLeft, runs, failedKeys,
                   pc, via, key, cls, data, idx, resolved, trace>>
    /\ UNCHANGED retryVars

NextMutate ==
    \/ Next
    \/ \E t \in Threads : CallerAssigns(t)

InitMutate ==
    /\ environ \in Environs
    /\ secret_mapping = DeclaredMapping
    /\ source = << Item("LOG_LEVEL", PyStr("INFO")), Item("API_KEY", PyStr("ref1")) >>
    /\ callsLeft = [t \in Threads |-> IF t = 1 THEN MaxCalls ELSE 0]
    /\ ConfigAtRest
    /\ RetryAtRest

SpecMutate == InitMutate /\ [][NextMutate]_vars

\* C14: the configuration stored for a selector keeps the field values it was
\* constructed with, whatever a caller holding it does: the instance a later
\* get_config call for that selector returns has the same field values.
C14_CachedConfigImmutable ==
    [][\A n \in DOMAIN cache : \A m \in DOMAIN cache' :
            cache'[m].key = cache[n].key =>
                cache'[m].inst.fields = cache[n].inst.fields]_vars

(***************************************************************************)
(* Two threads that call get_config at the same time.  lru_cache guards    *)
(* its own bookkeeping, not the call of the wrapped function: a thread     *)
(* that misses runs the body whatever the other thread is doing.           *)
(***************************************************************************)
ConcMappings ==
    { DeclaredMapping, [aws |-> {"API_KEY"}, azure |-> {}, gcp |-> {}] }

InitConc ==
    /\ environ = EmptyEnviron
    /\ secret_mapping \in ConcMappings
    /\ source = << Item("API_KEY", PyStr("ref1")) >>
    /\ callsLeft = [t \in Threads |-> 1]
    /\ ConfigAtRest
    /\ RetryAtRest

SpecConc == InitConc /\ [][Next]_vars

\* thread t is inside the body of get_config
InBody(t) == pc[t] # "idle" /\ via[t] = "get_config"

\* C15 as stated: initialization is exactly-once per key, so two threads are never
\* both inside the resolution of one selector.
C15_ExactlyOncePerKey ==
    \A t \in Threads : \A u \in Threads \ {t} :
        ~(InBody(t) /\ InBody(u) /\ key[t] = key[u])

\* C15 amended: the cache entry of a selector is written at most once and never
\* replaced (the first call to finish stores its instance); a call that starts
\* while the selector is not stored runs the resolution itself, whatever the other
\* thread is doing, and returns the instance it built, stored or not; a call that
\* starts once the selector is stored returns the stored instance.
C15_FirstStoreWins ==
    [][/\ \A k \in cache_keys(cache) :
            k \in cache_keys(cache') /\ cache_get(cache', k) = cache_get(cache, k)
       /\ Cardinality(cache_keys(cache')) = Len(cache')
       /\ \A t \in Threads :
            /\ (Enters(t) /\ key'[t] \in cache_keys(cache)) =>
                   ret'[t] = ReturnedInstance(cache_get(cache, key'[t]))
            /\ (Enters(t) /\ key'[t] \notin cache_keys(cache)
                   /\ body_error(key'[t]) = NoError) =>
                   /\ pc'[t] = "resolve"
                   /\ runs'[key'[t]] = runs[key'[t]] + 1
            /\ (pc[t] = "validate" /\ pc'[t] = "idle" /\ ret'[t].status = "ok") =>
                   /\ ret'[t].inst.id = nextId
                   /\ ret'[t].inst.fields = resolved[t]
                   /\ ret'[t].inst.id \notin {cache[n].inst.id : n \in DOMAIN cache}
                   /\ key[t] \in cache_keys(cache')
                   /\ key[t] \notin cache_keys(cache) =>
                          cache_get(cache', key[t]) = ret'[t].inst]_vars

C15_Witness ==
    /\ pc[1] = "idle" /\ pc[2] = "idle"
    /\ key[1] = key[2]
    /\ ret[1].status = "ok" /\ ret[2].status = "ok"
    /\ ret[1].inst.id = 2 /\ ret[2].inst.id = 1
    /\ runs[key[1]] = 2
    /\ Len(cache) = 1
    /\ cache[1].inst = ret[2].inst
    /\ Len(trace[1]) = 1 /\ Len(trace[2]) = 1

\* C16: the selectors that name one environment (they are equal once lowered)
\* share one constructed configuration: whatever is stored for them is the same
\* instance.
C16_OneInstancePerEnvironment ==
    \A n \in DOMAIN cache : \A m \in DOMAIN cache :
        lower(cache[n].key.s) = lower(cache[m].key.s) =>
            cache[n].inst.id = cache[m].inst.id

(***************************************************************************)
(* The helpers, seen through the invocations resolve_secrets makes.        *)
(***************************************************************************)
\* the invocations of one backend's helper made so far
InvocationsOf(backend) ==
    {e \in UNION {{trace[t][n] : n \in DOMAIN trace[t]} : t \in Threads} :
        e.backend = backend}

\* what aws_secret_helper makes of an answer with a non-empty text payload, of an
\* answer with neither payload, and of a store error
AwsTextReturned(e) ==
    (e.resp.exc = "none" /\ ~Falsy(e.resp.text)) => (e.ok /\ e.val = e.resp.text)

AwsNoContent(e) ==
    (e.resp.exc = "none" /\ Falsy(e.resp.text) /\ Falsy(e.resp.binary)) =>
        /\ ~e.ok
        /\ e.err = Error("ValueError", "AWS secret has no SecretString or SecretBinary",
                         e.ref, "")

AwsStoreError(e) ==
    /\ (e.resp.exc = "ClientError" /\ e.resp.code = "ResourceNotFoundException") =>
            e.err = Error("ValueError", "AWS secret not found", e.ref, "ClientError")
    /\ (e.resp.exc = "ClientError" /\ e.resp.code # "ResourceNotFoundException") =>
            e.err = Error("ClientError", e.resp.code, "", "")
    /\ e.resp.exc \notin {"none", "ClientError"} => e.err.type = e.resp.exc
    /\ e.resp.exc # "none" => (~e.ok /\ e.val = PyNone)

HasBinaryOnly(e) ==
    e.resp.exc = "none" /\ Falsy(e.resp.text) /\ ~Falsy(e.resp.binary)

\* C17 as stated: every answer of the store is one of five cases, and a non-empty
\* binary payload (with no text payload) is always returned, decoded to text.
C17_AwsEveryOutcomeMapped ==
    \A e \in InvocationsOf("aws") :
        /\ e.called /\ e.request = e.ref
        /\ AwsTextReturned(e)
        /\ HasBinaryOnly(e) => (e.ok /\ e.val = PyStr(e.resp.binary.str))
        /\ AwsNoContent(e)
        /\ AwsStoreError(e)

\* C17 amended: a non-empty binary payload is returned decoded to text when it is
\* valid UTF-8; when it is not, the fetch fails with the UnicodeDecodeError of the
\* decode, and no value is returned.  The other cases are as stated.
C17_AwsOutcomeMapping ==
    \A e \in InvocationsOf("aws") :
        /\ e.called /\ e.request = e.ref
        /\ AwsTextReturned(e)
        /\ (HasBinaryOnly(e) /\ CanDecode(e.resp.binary)) =>
                (e.ok /\ e.val = PyStr(e.resp.binary.str))
        /\ (HasBinaryOnly(e) /\ ~CanDecode(e.resp.binary)) =>
                (~e.ok /\ e.val = PyNone /\ e.err.type = "UnicodeDecodeError")
        /\ AwsNoContent(e)
        /\ AwsStoreError(e)

C17_Witness ==
    /\ pc[1] = "idle"
    /\ ret[1].status = "err"
    /\ ret[1].err.type = "UnicodeDecodeError"
    /\ Len(trace[1]) = 2
    /\ trace[1][1].backend = "aws" /\ trace[1][1].ok
    /\ trace[1][1].resp.binary = PyBytes("b1n", TRUE) /\ trace[1][1].val = PyStr("b1n")
    /\ trace[1][2].backend = "aws" /\ ~trace[1][2].ok
    /\ trace[1][2].resp.text = PyStr("") /\ trace[1][2].resp.binary = PyBytes("\\xff", FALSE)

(***************************************************************************)
(* resolve_secrets with the project identifier and the vault address       *)
(* unset, empty or set.                                                    *)
(***************************************************************************)
LocatorOptions ==
    [ project : {<<>>, <<"">>, <<"proj">>},
      vault : {<<>>, <<"">>, <<"https://base.vault">>} ]

LocatorEnviron(o) ==
    [n \in {m \in {"GOOGLE_CLOUD_PROJECT", "AZURE_KEY_VAULT_URL"} :
                IF m = "GOOGLE_CLOUD_PROJECT" THEN o.project # <<>> ELSE o.vault # <<>>} |->
        IF n = "GOOGLE_CLOUD_PROJECT" THEN o.project[1] ELSE o.vault[1]]

LocatorEnvirons == {LocatorEnviron(o) : o \in LocatorOptions}

InitFetch ==
    /\ environ \in LocatorEnvirons
    /\ secret_mapping \in Mappings
    /\ source = << Item("API_KEY", PyStr("ref1")), Item("LOG_LEVEL", PyStr("INFO")) >>
    /\ callsLeft = [t \in Threads |-> IF t = 1 THEN 1 ELSE 0]
    /\ ConfigAtRest
    /\ RetryAtRest

SpecFetch == InitFetch /\ [][NextResolve]_vars

\* the variable is unset or empty
Missing(name) == name \notin DOMAIN environ \/ environ[name] = ""

\* C18: without a project identifier the GCP fetch, and without a vault address the
\* Azure fetch, fails with a ValueError naming the variable and issues no retrieval
\* call; with the identifier the GCP fetch asks for exactly
\* projects/<project>/secrets/<reference>/versions/latest, and with the address
\* the Azure fetch asks for the reference.
C18_MissingLocatorFailsBeforeCall ==
    /\ \A e \in InvocationsOf("gcp") :
          IF Missing("GOOGLE_CLOUD_PROJECT")
          THEN /\ ~e.ok /\ ~e.called /\ e.request = ""
               /\ e.err = Error("ValueError",
                        "GOOGLE_CLOUD_PROJECT environment variable must be set", "", "")
          ELSE /\ e.called
               /\ e.request = "projects/" \o environ["GOOGLE_CLOUD_PROJECT"]
                                  \o "/secrets/" \o e.ref \o "/versions/latest"
    /\ \A e \in InvocationsOf("azure") :
          IF Missing("AZURE_KEY_VAULT_URL")
          THEN /\ ~e.ok /\ ~e.called /\ e.request = ""
               /\ e.err = Error("ValueError",
                        "AZURE_KEY_VAULT_URL environment variable must be set", "", "")
          ELSE e.called /\ e.request = e.ref

C18_Witness ==
    /\ pc[1] = "idle"
    /\ ret[1].status = "err"
    /\ environ_get(environ, "GOOGLE_CLOUD_PROJECT") = <<"proj">>
    /\ environ_get(environ, "AZURE_KEY_VAULT_URL") = <<"">>
    /\ Len(trace[1]) = 2
    /\ trace[1][1].backend = "gcp" /\ trace[1][1].ok
    /\ trace[1][1].request = "projects/proj/secrets/ref1/versions/latest"
    /\ trace[1][2].backend = "azure" /\ ~trace[1][2].called
    /\ trace[1][2].err.type = "ValueError"

\* the order in which resolve_secrets consults the lists of the mapping
BackendOrder == <<"aws", "azure", "gcp">>

\* the backends that list the field
ListedUnder(f) == {b \in BackendKinds : f \in secret_mapping[b]}

\* the position in the payload at which the field is met
PositionOf(t, f) == CHOOSE j \in DOMAIN data[t] : data[t][j].name = f

\* C19: a field is fetched by one backend only, the first of aws, azure, gcp that
\* lists it, wherever the field stands in the payload and whatever the other
\* fields are; no second helper is invoked for it, and an eligible listed field
\* that has been passed is fetched exactly once.
C19_FirstListedBackendOnly ==
    \A t \in Threads :
        /\ \A n \in DOMAIN trace[t] :
              LET e == trace[t][n]
              IN  \E j \in DOMAIN BackendOrder :
                      /\ BackendOrder[j] = e.backend
                      /\ e.field \in secret_mapping[e.backend]
                      /\ \A h \in 1..(j - 1) : e.field \notin secret_mapping[BackendOrder[h]]
        /\ \A f \in FieldNames : Cardinality(Fetches(t, f)) <= 1
        /\ \A j \in DOMAIN data[t] :
              (pc[t] = "resolve" /\ j < idx[t] /\ ListedUnder(data[t][j].name) # {}
                    /\ Eligible(data[t][j].value)) =>
                  Cardinality(Fetches(t, data[t][j].name)) = 1

C19_Witness ==
    /\ ReturnedResolved(1)
    /\ Len(data[1]) = 2
    /\ PositionOf(1, "API_KEY") = 2
    /\ ListedUnder("API_KEY") = BackendKinds
    /\ ListedUnder("LOG_LEVEL") = {"azure", "gcp"}
    /\ Len(trace[1]) = 2
    /\ trace[1][1].field = "LOG_LEVEL" /\ trace[1][1].backend = "azure"
    /\ trace[1][2].field = "API_KEY" /\ trace[1][2].backend = "aws"

==========================================================================
